---- MODULE Spec2Model ----
(***************************************************************************)
(* A model of astrai-inference-router/plugin.py: the plugin that rewrites  *)
(* outgoing LLM requests to the Astrai gateway, enforces a daily budget    *)
(* and aggregates cost/savings statistics from response headers.           *)
(*                                                                         *)
(* Python dicts are modelled as TLA+ functions whose DOMAIN is the key     *)
(* set; money amounts are integers counting 1/100000 of a dollar, one      *)
(* decimal place finer than the four places status() rounds to.            *)
(***************************************************************************)
EXTENDS Integers, Sequences, FiniteSets, TLC

VARIABLES
    env,             \* os.environ, read at import and construction
    phase,           \* "new" | "active" | "failed" (constructor raised)
    api_key,         \* self.api_key
    privacy_mode,    \* self.privacy_mode
    region,          \* self.region
    daily_budget,    \* self.daily_budget
    provider_keys,   \* self.provider_keys: insertion-ordered <<name, key>> pairs
    tracker,         \* self.tracker (SavingsTracker)
    op,              \* the method of the most recent call
    raised,          \* the exception of the most recent call (kind "none": returned)
    payload_in,      \* the payload handed to the most recent intercept_request
    returned,        \* the value the most recent intercept_request returned
    kwargs_in,       \* the caller's request_kwargs before that call
    request_kwargs,  \* the caller's request_kwargs after that call
    status_out,      \* the dict the most recent status() returned
    headers_in,      \* the headers handed to the most recent intercept_response
    clock,           \* what time.time() returned to the most recent status()
    n_record,        \* history: number of record() calls entered so far
    sums,            \* history: per-field sums of the per-call values
    exhausted,       \* history: cumulative cost has been >= daily budget > 0
    pc,              \* concurrent use: each thread's position in its logical call
    resp,            \* concurrent use: the response headers each transport returned
    first_hit,       \* history, concurrent use: the first record reached the budget
    tmp              \* concurrent use: the value each thread has read and not yet written back

vars == <<env, phase, api_key, privacy_mode, region, daily_budget, provider_keys,
          tracker, op, raised, payload_in, returned, kwargs_in, request_kwargs,
          status_out, headers_in, clock, n_record, sums, exhausted, pc, resp,
          first_hit, tmp>>

cfgVars == <<api_key, privacy_mode, region, daily_budget, provider_keys>>
callVars == <<payload_in, returned, kwargs_in, request_kwargs>>
obsVars == <<status_out, headers_in, clock>>
concVars == <<pc, resp, first_hit, tmp>>

----
(* Bounds of the model *)

\* record() is called at most this many times in a session
MaxRecords == 3

----
(* Python helpers *)

EmptyDict == [k \in {} |-> ""]

\* d[k] = v on a dict
Put(d, k, v) == [x \in DOMAIN d \cup {k} |-> IF x = k THEN v ELSE d[x]]

\* d.get(k, default)
Get(d, k, default) == IF k \in DOMAIN d THEN d[k] ELSE default

\* one dollar, in the unit amounts are counted in
Dollar == 10 ^ 5

\* The decimal literals the model uses, with the value float() gives them.
FloatLiterals ==
    [s \in {"-3", "-2", "-1", "0", "1", "2", "3", "4", "5", "10", "4.99996"} |->
        CASE s = "-3" -> -3 * Dollar [] s = "-2" -> -2 * Dollar
          [] s = "-1" -> -1 * Dollar [] s = "0" -> 0
          [] s = "1" -> 1 * Dollar   [] s = "2" -> 2 * Dollar
          [] s = "3" -> 3 * Dollar   [] s = "4" -> 4 * Dollar
          [] s = "5" -> 5 * Dollar   [] s = "10" -> 10 * Dollar
          [] s = "4.99996" -> 499996]

\* round(x, 4): the nearest multiple of 1/10000 dollar, a tie going to the
\* even one (no amount of the model sits on a tie)
Round4(x) ==
    LET q == x \div 10
        r == x % 10
    IN  IF r < 5 THEN 10 * q
        ELSE IF r > 5 THEN 10 * (q + 1)
        ELSE IF q % 2 = 0 THEN 10 * q ELSE 10 * (q + 1)

\* float(raw or 0): "" is falsy and gives 0.0; a string that is no number
\* makes float() raise ValueError (ok = FALSE).
FloatOrZero(raw) ==
    IF raw = "" THEN [ok |-> TRUE, v |-> 0]
    ELSE IF raw \in DOMAIN FloatLiterals THEN [ok |-> TRUE, v |-> FloatLiterals[raw]]
    ELSE [ok |-> FALSE, v |-> 0]

\* join as it would be with the separator written after every name
RECURSIVE Join_TrailingSep(_, _)
Join_TrailingSep(sep, names) ==
    IF names = <<>> THEN ""
    ELSE names[1] \o sep \o Join_TrailingSep(sep, Tail(names))

\* sep.join(names)
RECURSIVE Join(_, _)
Join(sep, names) ==
    IF names = <<>> THEN ""
    ELSE IF Len(names) = 1 THEN names[1]
    ELSE names[1] \o sep \o Join(sep, Tail(names))

----
(* Module constants *)

\* os.getenv(name, default)
Getenv(name, default) == Get(env, name, default)

ASTRAI_BASE_URL == Getenv("ASTRAI_BASE_URL", "https://as-trai.com/v1")

\* The provider table, cut to its first two rows.
PROVIDER_KEY_MAP ==
    << <<"anthropic", "ANTHROPIC_API_KEY">>, <<"openai", "OPENAI_API_KEY">> >>

----
(* SavingsTracker *)

\* SavingsTracker(): the dataclass defaults.  Time is counted in seconds from
\* the moment the tracker is created, so session_start is 0.
NewTracker ==
    [requests |-> 0, total_cost |-> 0, total_savings |-> 0, baseline_cost |-> 0,
     by_task_type |-> EmptyDict, by_provider |-> EmptyDict,
     session_start |-> 0]

\* float(headers.get(name, "0") or 0)
HeaderFloat(headers, name) == FloatOrZero(Get(headers, name, "0"))

\* record() as it would be with the request counted after the conversions:
\* a call that raises is not counted
Record_CountedLast(t, headers) ==
    LET cost      == HeaderFloat(headers, "X-Astrai-Cost")
        savings   == HeaderFloat(headers, "X-Astrai-Savings")
        baseline  == HeaderFloat(headers, "X-Astrai-Baseline-Cost")
        task_type == Get(headers, "X-Astrai-Task-Type", "unknown")
        provider  == Get(headers, "X-Astrai-Provider", "unknown")
    IN  IF ~cost.ok \/ ~savings.ok \/ ~baseline.ok
        THEN [raised |-> TRUE, tracker |-> t]
        ELSE [raised |-> FALSE,
              tracker |->
                [t EXCEPT
                    !.requests      = @ + 1,
                    !.total_cost    = @ + cost.v,
                    !.total_savings = @ + savings.v,
                    !.baseline_cost = @ + baseline.v,
                    !.by_task_type  =
                        Put(@, task_type, Get(@, task_type, 0) + savings.v),
                    !.by_provider   =
                        Put(@, provider, Get(@, provider, 0) + 1)]]

\* SavingsTracker.record(headers) on tracker t: the tracker it leaves behind
\* and whether it raised.  The request count is incremented first; the three
\* float() conversions come next and any of them may raise ValueError, which
\* leaves every other field as it was.
Record(t, headers) ==
    LET counted   == [t EXCEPT !.requests = @ + 1]
        cost      == HeaderFloat(headers, "X-Astrai-Cost")
        savings   == HeaderFloat(headers, "X-Astrai-Savings")
        baseline  == HeaderFloat(headers, "X-Astrai-Baseline-Cost")
        task_type == Get(headers, "X-Astrai-Task-Type", "unknown")
        provider  == Get(headers, "X-Astrai-Provider", "unknown")
    IN  IF ~cost.ok \/ ~savings.ok \/ ~baseline.ok
        THEN [raised |-> TRUE, tracker |-> counted]
        ELSE [raised |-> FALSE,
              tracker |->
                [counted EXCEPT
                    !.total_cost    = @ + cost.v,
                    !.total_savings = @ + savings.v,
                    !.baseline_cost = @ + baseline.v,
                    !.by_task_type  =
                        Put(@, task_type, Get(@, task_type, 0) + savings.v),
                    !.by_provider   =
                        Put(@, provider, Get(@, provider, 0) + 1)]]

----
(* Construction *)

\* _collect_provider_keys(): the providers whose variable is set and non-empty,
\* in the table's order
RECURSIVE CollectFrom(_)
CollectFrom(table) ==
    IF table = <<>> THEN <<>>
    ELSE LET val == Getenv(table[1][2], "")
         IN  (IF val # "" THEN << <<table[1][1], val>> >> ELSE <<>>)
                \o CollectFrom(Tail(table))

collect_provider_keys == CollectFrom(PROVIDER_KEY_MAP)

\* provider_keys.keys()
Keys(pk) == [i \in 1..Len(pk) |-> pk[i][1]]

NoError == [kind |-> "none", budget |-> 0, requests |-> 0]
ValueError == [kind |-> "ValueError", budget |-> 0, requests |-> 0]
\* the budget error as it would be with the two format arguments swapped
BudgetError_Swapped(budget, requests) ==
    [kind |-> "RuntimeError", budget |-> requests, requests |-> budget]

\* RuntimeError("Daily budget of $<budget> reached. <requests> requests routed today.")
BudgetError(budget, requests) ==
    [kind |-> "RuntimeError", budget |-> budget, requests |-> requests]

NoPayload == [none |-> TRUE]
NoKwargs == [fields |-> EmptyDict, has_headers |-> FALSE, headers |-> EmptyDict]
NoStatus == [status |-> "none"]

\* __init__ as it would be without the provider key check
Constructed_NoProviderCheck ==
    LET budget == FloatOrZero(Getenv("DAILY_BUDGET", "10"))
        key    == Getenv("ASTRAI_API_KEY", "")
    IN  [api_key       |-> key,
         privacy_mode  |-> Getenv("PRIVACY_MODE", "enhanced"),
         region        |-> Getenv("REGION", "any"),
         daily_budget  |-> budget.v,
         provider_keys |-> collect_provider_keys,
         raised        |-> ~budget.ok \/ key = ""]

\* AstraiInferenceRouterPlugin.__init__: the attributes it reads from the
\* environment and whether it raised ValueError (float() of a non-numeric
\* DAILY_BUDGET, an empty routing key, no provider key)
Constructed ==
    LET budget == FloatOrZero(Getenv("DAILY_BUDGET", "10"))
        key    == Getenv("ASTRAI_API_KEY", "")
        keys   == collect_provider_keys
    IN  [api_key       |-> key,
         privacy_mode  |-> Getenv("PRIVACY_MODE", "enhanced"),
         region        |-> Getenv("REGION", "any"),
         daily_budget  |-> budget.v,
         provider_keys |-> keys,
         raised        |-> ~budget.ok \/ key = "" \/ keys = <<>>]

Construct ==
    /\ phase = "new"
    /\ LET c == Constructed
       IN  IF c.raised
           THEN /\ phase' = "failed"
                /\ raised' = ValueError
                /\ UNCHANGED cfgVars
           ELSE /\ phase' = "active"
                /\ raised' = NoError
                /\ api_key' = c.api_key
                /\ privacy_mode' = c.privacy_mode
                /\ region' = c.region
                /\ daily_budget' = c.daily_budget
                /\ provider_keys' = c.provider_keys
    /\ op' = "__init__"
    /\ UNCHANGED <<env, tracker, callVars, obsVars, n_record, sums, exhausted,
                   concVars>>

----
(* intercept_request *)

\* the budget check as it would be without the "budget > 0" guard
BudgetReached_NoZeroGuard(budget, t) == t.total_cost >= budget

\* the budget check as it would be if a cost equal to the budget still passed
BudgetReached_Strict(budget, t) == budget > 0 /\ t.total_cost > budget

\* the budget check of intercept_request
BudgetReached(budget, t) == budget > 0 /\ t.total_cost >= budget

\* json.dumps(provider_keys)
JsonDumps(pk) ==
    "{" \o Join(", ", [i \in 1..Len(pk) |->
                        "\"" \o pk[i][1] \o "\": \"" \o pk[i][2] \o "\""]) \o "}"

\* the header assignments as they would be with the bare key as Authorization
RoutingHeaders_BareKey(headers) ==
    LET h1 == Put(headers, "Authorization", api_key)
        h2 == Put(h1, "X-Astrai-Provider-Keys", JsonDumps(provider_keys))
        h3 == Put(h2, "X-Astrai-Region", region)
        h4 == Put(h3, "X-Astrai-Privacy", privacy_mode)
        h5 == Put(h4, "X-Astrai-Source", "openclaw-plugin")
    IN  Put(h5, "X-Astrai-Available-Providers", Join(",", Keys(provider_keys)))

\* headers after the six assignments of intercept_request
RoutingHeaders(headers) ==
    LET h1 == Put(headers, "Authorization", "Bearer " \o api_key)
        h2 == Put(h1, "X-Astrai-Provider-Keys", JsonDumps(provider_keys))
        h3 == Put(h2, "X-Astrai-Region", region)
        h4 == Put(h3, "X-Astrai-Privacy", privacy_mode)
        h5 == Put(h4, "X-Astrai-Source", "openclaw-plugin")
    IN  Put(h5, "X-Astrai-Available-Providers", Join(",", Keys(provider_keys)))

\* the rewrite as it would be with a fresh headers dict in place of the
\* caller's
Rewritten_FreshHeaders(kw) ==
    [fields      |-> Put(kw.fields, "base_url", ASTRAI_BASE_URL),
     has_headers |-> TRUE,
     headers     |-> RoutingHeaders(EmptyDict)]

\* request_kwargs after the rewrite: base_url set, headers created if the
\* key was missing (setdefault) and filled in place
Rewritten(kw) ==
    [fields      |-> Put(kw.fields, "base_url", ASTRAI_BASE_URL),
     has_headers |-> TRUE,
     headers     |-> RoutingHeaders(IF kw.has_headers THEN kw.headers ELSE EmptyDict)]

\* intercept_request as it would be with base_url assigned before the budget
\* check
InterceptRequestResult_UrlFirst(payload, kw) ==
    IF BudgetReached(daily_budget, tracker)
    THEN [raised   |-> BudgetError(daily_budget, tracker.requests),
          returned |-> NoPayload,
          kwargs   |-> [kw EXCEPT !.fields = Put(@, "base_url", ASTRAI_BASE_URL)]]
    ELSE [raised   |-> NoError,
          returned |-> payload,
          kwargs   |-> Rewritten(kw)]

\* intercept_request(payload, kw): what it raises, what it returns and the
\* request_kwargs it leaves behind
InterceptRequestResult(payload, kw) ==
    IF BudgetReached(daily_budget, tracker)
    THEN [raised   |-> BudgetError(daily_budget, tracker.requests),
          returned |-> NoPayload,
          kwargs   |-> kw]
    ELSE [raised   |-> NoError,
          returned |-> payload,
          kwargs   |-> Rewritten(kw)]

\* The payloads and request descriptors callers pass in
Payloads ==
    { [model |-> "auto", messages |-> <<"hello">>],
      [model |-> "gpt-4o", messages |-> <<"a", "b">>] }

KwargsInputs ==
    { NoKwargs,
      [fields |-> [k \in {"timeout"} |-> "30"], has_headers |-> TRUE,
       headers |-> EmptyDict],
      [fields |-> [k \in {"base_url", "timeout"} |->
                     IF k = "base_url" THEN "https://api.openai.com/v1" ELSE "30"],
       has_headers |-> TRUE,
       headers |-> [k \in {"Authorization", "X-Trace"} |->
                     IF k = "Authorization" THEN "Bearer sk-direct" ELSE "t1"]] }

InterceptRequest ==
    /\ phase = "active"
    /\ \E payload \in Payloads, kw \in KwargsInputs :
          LET r == InterceptRequestResult(payload, kw)
          IN  /\ payload_in' = payload
              /\ kwargs_in' = kw
              /\ raised' = r.raised
              /\ returned' = r.returned
              /\ request_kwargs' = r.kwargs
    /\ op' = "intercept_request"
    /\ status_out' = NoStatus
    /\ headers_in' = EmptyDict
    /\ clock' = 0
    /\ UNCHANGED <<env, phase, cfgVars, tracker, n_record, sums, exhausted, concVars>>

----
(* intercept_response *)

\* a dict from a sequence of <<key, value>> pairs
Dict(pairs) ==
    [k \in {pairs[i][1] : i \in 1..Len(pairs)} |->
        pairs[CHOOSE i \in 1..Len(pairs) : pairs[i][1] = k][2]]

\* The response header mappings the transport hands back: complete, partial,
\* empty, with negative amounts, with empty and with non-numeric amounts
ResponseHeaders ==
    { EmptyDict,
      Dict(<< <<"X-Astrai-Cost", "2">>, <<"X-Astrai-Savings", "1">>,
              <<"X-Astrai-Baseline-Cost", "3">>, <<"X-Astrai-Task-Type", "code">>,
              <<"X-Astrai-Provider", "openai">> >>),
      Dict(<< <<"X-Astrai-Cost", "5">>, <<"X-Astrai-Savings", "-1">>,
              <<"X-Astrai-Baseline-Cost", "4">>, <<"X-Astrai-Task-Type", "chat">>,
              <<"X-Astrai-Provider", "anthropic">> >>),
      Dict(<< <<"X-Astrai-Cost", "-1">>, <<"X-Astrai-Task-Type", "code">> >>),
      Dict(<< <<"X-Astrai-Savings", "1">>, <<"X-Astrai-Baseline-Cost", "-2">> >>),
      Dict(<< <<"X-Astrai-Cost", "">>, <<"X-Astrai-Savings", "">>,
              <<"X-Astrai-Baseline-Cost", "">> >>),
      Dict(<< <<"X-Astrai-Cost", "abc">>, <<"X-Astrai-Savings", "1">>,
              <<"X-Astrai-Provider", "openai">> >>),
      Dict(<< <<"X-Astrai-Cost", "2">>, <<"X-Astrai-Savings", "n/a">> >>),
      Dict(<< <<"X-Astrai-Cost", "1">>, <<"X-Astrai-Baseline-Cost", "$3">> >>),
      Dict(<< <<"X-Astrai-Cost", "4.99996">>, <<"X-Astrai-Provider", "openai">> >>) }

\* the value one call contributes to a total: the header as a number, 0 when
\* it is absent, empty or no number
PerCall(headers, name) ==
    LET f == HeaderFloat(headers, name) IN IF f.ok THEN f.v ELSE 0

\* the history variables after record(headers) left tracker t
SumsAfter(headers) ==
    [cost     |-> sums.cost + PerCall(headers, "X-Astrai-Cost"),
     savings  |-> sums.savings + PerCall(headers, "X-Astrai-Savings"),
     baseline |-> sums.baseline + PerCall(headers, "X-Astrai-Baseline-Cost")]

ExhaustedAfter(t) == exhausted \/ (daily_budget > 0 /\ t.total_cost >= daily_budget)

\* intercept_response(response_headers): delegates to tracker.record
InterceptResponse ==
    /\ phase = "active"
    /\ tracker.requests < MaxRecords
    /\ \E headers \in ResponseHeaders :
          LET r == Record(tracker, headers)
          IN  /\ tracker' = r.tracker
              /\ raised' = IF r.raised THEN ValueError ELSE NoError
              /\ sums' = SumsAfter(headers)
              /\ exhausted' = ExhaustedAfter(r.tracker)
              /\ headers_in' = headers
    /\ n_record' = n_record + 1
    /\ op' = "intercept_response"
    /\ payload_in' = NoPayload
    /\ returned' = NoPayload
    /\ kwargs_in' = NoKwargs
    /\ request_kwargs' = NoKwargs
    /\ status_out' = NoStatus
    /\ clock' = 0
    /\ UNCHANGED <<env, phase, cfgVars, concVars>>

----
(* status *)

\* 3600, the seconds in the hour summary() divides by
SecondsPerHour == 3600

\* summary() as it would be with the hourly rate shown from the threshold on
\* ("hours >= 0.1")
Summary_RateFromThreshold(t, now) ==
    LET elapsed == now - t.session_start
    IN  << [clause |-> "saved", v |-> t.total_savings, requests |-> t.requests] >>
        \o (IF 10 * elapsed >= SecondsPerHour
            THEN << [clause |-> "rate",
                     v |-> (t.total_savings * SecondsPerHour) \div elapsed] >>
            ELSE << >>)
        \o (IF t.baseline_cost > 0
            THEN << [clause |-> "reduction",
                     v |-> (t.total_savings * 100) \div t.baseline_cost] >>
            ELSE << >>)

\* SavingsTracker.summary() on tracker t when time.time() returns now: the
\* clauses of the line it builds, in order.  "hours > 0.1" is
\* "elapsed / 3600 > 0.1"; the quotients are taken as whole numbers, and each
\* is computed only where the code computes it.
Summary(t, now) ==
    LET elapsed == now - t.session_start
    IN  << [clause |-> "saved", v |-> t.total_savings, requests |-> t.requests] >>
        \o (IF 10 * elapsed > SecondsPerHour
            THEN << [clause |-> "rate",
                     v |-> (t.total_savings * SecondsPerHour) \div elapsed] >>
            ELSE << >>)
        \o (IF t.baseline_cost > 0
            THEN << [clause |-> "reduction",
                     v |-> (t.total_savings * 100) \div t.baseline_cost] >>
            ELSE << >>)

\* status() as it would be without the max(0, ...) around the remaining budget
StatusDict_Unclamped(now) ==
    [status               |-> "active",
     mode                 |-> "byok",
     privacy_mode         |-> privacy_mode,
     region               |-> region,
     providers_configured |-> Keys(provider_keys),
     provider_count       |-> Len(provider_keys),
     summary              |-> Summary(tracker, now),
     requests_routed      |-> tracker.requests,
     total_cost_usd       |-> Round4(tracker.total_cost),
     total_savings_usd    |-> Round4(tracker.total_savings),
     savings_by_task_type |-> tracker.by_task_type,
     routing_by_provider  |-> tracker.by_provider,
     daily_budget_usd     |-> daily_budget,
     budget_remaining_usd |->
        IF daily_budget > 0
        THEN [none |-> FALSE, v |-> Round4(daily_budget - tracker.total_cost)]
        ELSE [none |-> TRUE, v |-> 0]]

\* the dict status() returns when time.time() returns now
StatusDict(now) ==
    [status               |-> "active",
     mode                 |-> "byok",
     privacy_mode         |-> privacy_mode,
     region               |-> region,
     providers_configured |-> Keys(provider_keys),
     provider_count       |-> Len(provider_keys),
     summary              |-> Summary(tracker, now),
     requests_routed      |-> tracker.requests,
     total_cost_usd       |-> Round4(tracker.total_cost),
     total_savings_usd    |-> Round4(tracker.total_savings),
     savings_by_task_type |-> tracker.by_task_type,
     routing_by_provider  |-> tracker.by_provider,
     daily_budget_usd     |-> daily_budget,
     budget_remaining_usd |->
        IF daily_budget > 0
        THEN [none |-> FALSE,
              v |-> Round4(IF daily_budget - tracker.total_cost > 0
                           THEN daily_budget - tracker.total_cost ELSE 0)]
        ELSE [none |-> TRUE, v |-> 0]]

\* the times, in seconds since the tracker was created, at which status() is
\* called: at once, at a tenth of an hour, and one second later
TimeReadings == {0, 360, 361}

\* the tracker after a status() that counted itself as a request
TrackerAfterStatus_Counts(t) == [t EXCEPT !.requests = @ + 1]

\* the tracker after status() (it is only read)
TrackerAfterStatus(t) == t

Status ==
    /\ phase = "active"
    /\ \E now \in TimeReadings :
          /\ status_out' = StatusDict(now)
          /\ clock' = now
    /\ tracker' = TrackerAfterStatus(tracker)
    /\ op' = "status"
    /\ raised' = NoError
    /\ payload_in' = NoPayload
    /\ returned' = NoPayload
    /\ kwargs_in' = NoKwargs
    /\ request_kwargs' = NoKwargs
    /\ headers_in' = EmptyDict
    /\ UNCHANGED <<env, phase, cfgVars, n_record, sums, exhausted, concVars>>

----
(* The environment the process starts in *)

Merge(a, b) == [k \in DOMAIN a \cup DOMAIN b |-> IF k \in DOMAIN a THEN a[k] ELSE b[k]]

\* a variable that is unset, or set to one of values
OptVar(name, values) == {EmptyDict} \cup {[k \in {name} |-> v] : v \in values}

\* the routing key and the provider keys, in every combination
CoreEnvironments ==
    { Merge(k, Merge(a, o)) :
        k \in OptVar("ASTRAI_API_KEY", {"", "sk-astrai"}),
        a \in OptVar("ANTHROPIC_API_KEY", {"ak-1"}),
        o \in OptVar("OPENAI_API_KEY", {"", "ok-1"}) }

\* the daily budget: unset, empty, zero, positive, negative, not a number
BudgetEnvironments ==
    { Merge(b, Dict(<< <<"ASTRAI_API_KEY", "sk-astrai">>,
                       <<"OPENAI_API_KEY", "ok-1">> >>)) :
        b \in OptVar("DAILY_BUDGET", {"", "0", "5", "-3", "lots"}) }

\* the routing preferences and the gateway address, in every combination
Preferences ==
    { Merge(m, Merge(r, u)) :
        m \in OptVar("PRIVACY_MODE", {"strict"}),
        r \in OptVar("REGION", {"eu"}),
        u \in OptVar("ASTRAI_BASE_URL", {"https://gw.example/v1"}) }

PreferenceBase ==
    Dict(<< <<"ASTRAI_API_KEY", "sk-astrai">>, <<"DAILY_BUDGET", "5">>,
            <<"OPENAI_API_KEY", "ok-1">> >>)

Environments ==
    CoreEnvironments \cup BudgetEnvironments
        \cup { Merge(PreferenceBase, p) : p \in Preferences }

Threads == {1, 2}

Init ==
    /\ env \in Environments
    /\ phase = "new"
    /\ api_key = ""
    /\ privacy_mode = ""
    /\ region = ""
    /\ daily_budget = 0
    /\ provider_keys = <<>>
    /\ tracker = NewTracker
    /\ op = "none"
    /\ raised = NoError
    /\ payload_in = NoPayload
    /\ returned = NoPayload
    /\ kwargs_in = NoKwargs
    /\ request_kwargs = NoKwargs
    /\ status_out = NoStatus
    /\ headers_in = EmptyDict
    /\ clock = 0
    /\ n_record = 0
    /\ sums = [cost |-> 0, savings |-> 0, baseline |-> 0]
    /\ exhausted = FALSE
    /\ pc = [t \in Threads |-> "idle"]
    /\ resp = [t \in Threads |-> EmptyDict]
    /\ first_hit = FALSE
    /\ tmp = [t \in Threads |-> [field |-> 0, v |-> 0]]

\* One caller at a time
Next ==
    \/ Construct
    \/ InterceptRequest
    \/ InterceptResponse
    \/ Status

Spec == Init /\ [][Next]_vars

----
(* Two logical calls issued concurrently on one shared plugin.  Each call is *)
(* intercept_request, then the transport, then intercept_response; the       *)
(* plugin takes no lock, so the steps of the two calls interleave freely.    *)

Passed(t) == pc[t] \in {"passed", "transported", "done"}

\* thread t calls intercept_request
ThreadRequest(t) ==
    /\ phase = "active"
    /\ pc[t] = "idle"
    /\ \E payload \in Payloads :
          LET r == InterceptRequestResult(payload, NoKwargs)
          IN  /\ payload_in' = payload
              /\ kwargs_in' = NoKwargs
              /\ raised' = r.raised
              /\ returned' = r.returned
              /\ request_kwargs' = r.kwargs
              /\ pc' = [pc EXCEPT ![t] =
                          IF r.raised.kind = "none" THEN "passed" ELSE "rejected"]
    /\ op' = "intercept_request"
    /\ status_out' = NoStatus
    /\ headers_in' = EmptyDict
    /\ clock' = 0
    /\ UNCHANGED <<env, phase, cfgVars, tracker, n_record, sums, exhausted,
                   resp, first_hit, tmp>>

\* the transport of thread t's call returns with response headers
ThreadTransport(t) ==
    /\ pc[t] = "passed"
    /\ \E headers \in ResponseHeaders : resp' = [resp EXCEPT ![t] = headers]
    /\ pc' = [pc EXCEPT ![t] = "transported"]
    /\ UNCHANGED <<env, phase, cfgVars, tracker, op, raised, callVars, obsVars,
                   n_record, sums, exhausted, first_hit, tmp>>

\* thread t calls intercept_response with the headers of its call
ThreadResponse(t) ==
    /\ pc[t] = "transported"
    /\ LET r == Record(tracker, resp[t])
       IN  /\ tracker' = r.tracker
           /\ raised' = IF r.raised THEN ValueError ELSE NoError
           /\ sums' = SumsAfter(resp[t])
           /\ exhausted' = ExhaustedAfter(r.tracker)
           /\ first_hit' =
                IF \E u \in Threads : pc[u] = "done" THEN first_hit
                ELSE daily_budget > 0 /\ r.tracker.total_cost >= daily_budget
    /\ n_record' = n_record + 1
    /\ pc' = [pc EXCEPT ![t] = "done"]
    /\ resp' = [resp EXCEPT ![t] = EmptyDict]
    /\ op' = "intercept_response"
    /\ payload_in' = NoPayload
    /\ returned' = NoPayload
    /\ kwargs_in' = NoKwargs
    /\ request_kwargs' = NoKwargs
    /\ status_out' = NoStatus
    /\ headers_in' = resp[t]
    /\ clock' = 0
    /\ UNCHANGED <<env, phase, cfgVars, tmp>>

NextConc ==
    \/ Construct
    \/ \E t \in Threads : ThreadRequest(t)
    \/ \E t \in Threads : ThreadTransport(t)
    \/ \E t \in Threads : ThreadResponse(t)

SpecConc == Init /\ [][NextConc]_vars

----
(* Two threads calling record on one shared tracker.  Each augmented         *)
(* assignment of record is a read of the attribute (or dict entry) followed  *)
(* by a write of the value read plus the call's amount; the tracker takes no *)
(* lock, so another thread may run between the read and the write.           *)

\* the attributes record updates, in the order of its statements
RecordFields ==
    <<"requests", "total_cost", "total_savings", "baseline_cost",
      "by_task_type", "by_provider">>

\* whether the three float() conversions of record succeed on headers
Parses(headers) ==
    /\ HeaderFloat(headers, "X-Astrai-Cost").ok
    /\ HeaderFloat(headers, "X-Astrai-Savings").ok
    /\ HeaderFloat(headers, "X-Astrai-Baseline-Cost").ok

\* what the read half of the i-th update loads from tracker t
FieldRead(t, i, headers) ==
    CASE i = 1 -> t.requests
      [] i = 2 -> t.total_cost
      [] i = 3 -> t.total_savings
      [] i = 4 -> t.baseline_cost
      [] i = 5 -> Get(t.by_task_type, Get(headers, "X-Astrai-Task-Type", "unknown"), 0)
      [] i = 6 -> Get(t.by_provider, Get(headers, "X-Astrai-Provider", "unknown"), 0)

\* what the i-th update adds to the value it loaded
FieldDelta(i, headers) ==
    CASE i = 1 -> 1
      [] i = 2 -> HeaderFloat(headers, "X-Astrai-Cost").v
      [] i = 3 -> HeaderFloat(headers, "X-Astrai-Savings").v
      [] i = 4 -> HeaderFloat(headers, "X-Astrai-Baseline-Cost").v
      [] i = 5 -> HeaderFloat(headers, "X-Astrai-Savings").v
      [] i = 6 -> 1

\* tracker t after the write half of the i-th update stores v
FieldWrite(t, i, headers, v) ==
    CASE i = 1 -> [t EXCEPT !.requests = v]
      [] i = 2 -> [t EXCEPT !.total_cost = v]
      [] i = 3 -> [t EXCEPT !.total_savings = v]
      [] i = 4 -> [t EXCEPT !.baseline_cost = v]
      [] i = 5 -> [t EXCEPT !.by_task_type =
                      Put(@, Get(headers, "X-Astrai-Task-Type", "unknown"), v)]
      [] i = 6 -> [t EXCEPT !.by_provider =
                      Put(@, Get(headers, "X-Astrai-Provider", "unknown"), v)]

\* the metadata of the racing calls: every amount is a number, so that no
\* call raises and a total can differ from the sum only by a lost update
WellFormedHeaders == {h \in ResponseHeaders : Parses(h)}

\* thread t enters record(headers)
RaceEnter(t) ==
    /\ phase = "active"
    /\ pc[t] = "idle"
    /\ \E headers \in WellFormedHeaders :
          /\ resp' = [resp EXCEPT ![t] = headers]
          /\ sums' = SumsAfter(headers)
          /\ headers_in' = headers
    /\ pc' = [pc EXCEPT ![t] = "read"]
    /\ tmp' = [tmp EXCEPT ![t] = [field |-> 1, v |-> 0]]
    /\ n_record' = n_record + 1
    /\ op' = "intercept_response"
    /\ raised' = NoError
    /\ UNCHANGED <<env, phase, cfgVars, tracker, callVars, status_out, clock,
                   exhausted, first_hit>>

\* thread t loads the attribute of its current update
RaceRead(t) ==
    /\ pc[t] = "read"
    /\ tmp' = [tmp EXCEPT ![t].v = FieldRead(tracker, tmp[t].field, resp[t])]
    /\ pc' = [pc EXCEPT ![t] = "write"]
    /\ UNCHANGED <<env, phase, cfgVars, tracker, op, raised, callVars, obsVars,
                   n_record, sums, exhausted, resp, first_hit>>

\* thread t stores the value it loaded plus its amount, and moves on: after
\* the request count come the conversions, which end the call if one raises
RaceWrite(t) ==
    /\ pc[t] = "write"
    /\ LET i == tmp[t].field
           stored == FieldWrite(tracker, i, resp[t],
                                tmp[t].v + FieldDelta(i, resp[t]))
           ends == i = Len(RecordFields) \/ (i = 1 /\ ~Parses(resp[t]))
       IN  /\ tracker' = stored
           /\ exhausted' = ExhaustedAfter(stored)
           /\ raised' = IF i = 1 /\ ~Parses(resp[t]) THEN ValueError ELSE raised
           /\ pc' = [pc EXCEPT ![t] = IF ends THEN "done" ELSE "read"]
           /\ tmp' = [tmp EXCEPT ![t] =
                        IF ends THEN [field |-> 0, v |-> 0]
                        ELSE [field |-> i + 1, v |-> 0]]
    /\ UNCHANGED <<env, phase, cfgVars, op, callVars, obsVars, n_record, sums,
                   resp, first_hit>>

NextRace ==
    \/ Construct
    \/ \E t \in Threads : RaceEnter(t)
    \/ \E t \in Threads : RaceRead(t)
    \/ \E t \in Threads : RaceWrite(t)

\* one environment is enough here: record reads none of the configuration
InitRace == Init /\ env = PreferenceBase

SpecRace == InitRace /\ [][NextRace]_vars

----
(* Properties *)

ROUTING_HEADERS ==
    {"Authorization", "X-Astrai-Region", "X-Astrai-Privacy", "X-Astrai-Source",
     "X-Astrai-Provider-Keys", "X-Astrai-Available-Providers"}

\* C1: budget exhaustion is permanent: once the cumulative cost has reached
\* the daily budget (> 0), every later intercept_request raises the budget
\* error, whatever calls happened in between.
C1_ExhaustionIsPermanent ==
    (op = "intercept_request" /\ exhausted) => raised.kind = "RuntimeError"

\* C2: intercept_request has two outcomes and no partial one: it raises the
\* budget error and leaves request_kwargs and the tracker exactly as they were,
\* or it returns and request_kwargs carries the gateway base_url and all six
\* routing headers.
C2_RejectedOrFullyRewritten ==
    [][op' = "intercept_request" =>
        \/ /\ raised'.kind = "RuntimeError"
           /\ request_kwargs' = kwargs_in'
           /\ tracker' = tracker
        \/ /\ raised'.kind = "none"
           /\ "base_url" \in DOMAIN request_kwargs'.fields
           /\ request_kwargs'.fields["base_url"] = ASTRAI_BASE_URL
           /\ request_kwargs'.has_headers
           /\ ROUTING_HEADERS \subseteq DOMAIN request_kwargs'.headers]_vars

C2_Witness ==
    /\ op = "intercept_request"
    /\ raised.kind = "RuntimeError"
    /\ "Authorization" \in DOMAIN kwargs_in.headers
    /\ "base_url" \in DOMAIN kwargs_in.fields

\* C3: with the daily budget configured as 0 (unlimited), intercept_request
\* never raises the budget error, however large the cumulative cost.
C3_UnlimitedNeverRaises ==
    (op = "intercept_request" /\ daily_budget = 0) => raised.kind = "none"

C3_Witness ==
    /\ op = "intercept_request"
    /\ Getenv("DAILY_BUDGET", "10") = "0"
    /\ daily_budget = 0
    /\ tracker.total_cost >= 10 * Dollar
    /\ raised.kind = "none"

\* C4: intercept_response / record never raises, whatever the metadata.
C4_RecordNeverRaises ==
    op = "intercept_response" => raised.kind = "none"

\* C5: the cumulative cost, savings and baseline cost each equal the sum over
\* the record calls of the per-call value, an absent or non-numeric value
\* counting as 0.
C5_TotalsAreSums ==
    /\ tracker.total_cost = sums.cost
    /\ tracker.total_savings = sums.savings
    /\ tracker.baseline_cost = sums.baseline

\* C6: the request count equals the number of record calls made so far;
\* no other call changes it and it is never reset.
C6_RequestsCountRecordCalls ==
    tracker.requests = n_record

C6_Witness ==
    /\ op = "intercept_request"
    /\ raised.kind = "RuntimeError"
    /\ n_record = 3
    /\ tracker.requests = 3

\* C7: cumulative cost and cumulative baseline cost are never negative and
\* never decrease across a record call, for any response metadata.
C7_CostAndBaselineMonotone ==
    [][/\ tracker'.total_cost >= tracker.total_cost
       /\ tracker'.baseline_cost >= tracker.baseline_cost
       /\ tracker'.total_cost >= 0
       /\ tracker'.baseline_cost >= 0]_vars

\* C8: when the budget allows (budget 0, or cumulative cost < budget),
\* intercept_request sets base_url to the gateway endpoint, Authorization to
\* "Bearer <routing key>", the region, privacy and source headers, and returns
\* the payload it was given.
C8_RewriteWhenBudgetAllows ==
    (/\ op = "intercept_request"
     /\ (daily_budget = 0 \/ tracker.total_cost < daily_budget))
    => /\ raised.kind = "none"
       /\ "base_url" \in DOMAIN request_kwargs.fields
       /\ request_kwargs.fields["base_url"] = Getenv("ASTRAI_BASE_URL", "https://as-trai.com/v1")
       /\ {"Authorization", "X-Astrai-Region", "X-Astrai-Privacy", "X-Astrai-Source"}
            \subseteq DOMAIN request_kwargs.headers
       /\ request_kwargs.headers["Authorization"] = "Bearer " \o api_key
       /\ request_kwargs.headers["X-Astrai-Region"] = region
       /\ request_kwargs.headers["X-Astrai-Privacy"] = privacy_mode
       /\ request_kwargs.headers["X-Astrai-Source"] = "openclaw-plugin"
       /\ returned = payload_in

C8_Witness ==
    /\ op = "intercept_request"
    /\ daily_budget > 0
    /\ tracker.total_cost > 0
    /\ tracker.total_cost < daily_budget
    /\ "Authorization" \in DOMAIN kwargs_in.headers
    /\ request_kwargs.headers["Authorization"] = "Bearer sk-astrai"
    /\ returned = payload_in

\* C9: construction raises when the routing key is absent or empty and when no
\* provider key is present; so every instance a method can be called on has a
\* non-empty routing key and a non-empty provider key map, and both stay what
\* the constructor read.
NoProviderKeyInEnv ==
    \A i \in 1..Len(PROVIDER_KEY_MAP) : Getenv(PROVIDER_KEY_MAP[i][2], "") = ""

C9_ConstructionValidates ==
    /\ (phase # "new" /\ (Getenv("ASTRAI_API_KEY", "") = "" \/ NoProviderKeyInEnv))
          => phase = "failed"
    /\ op \in {"intercept_request", "intercept_response", "status"} => phase = "active"
    /\ phase = "active" =>
          /\ api_key # ""
          /\ api_key = Getenv("ASTRAI_API_KEY", "")
          /\ provider_keys # <<>>
          /\ \A i \in 1..Len(provider_keys) :
                /\ provider_keys[i][2] # ""
                /\ \E j \in 1..Len(PROVIDER_KEY_MAP) :
                      /\ PROVIDER_KEY_MAP[j][1] = provider_keys[i][1]
                      /\ Getenv(PROVIDER_KEY_MAP[j][2], "") = provider_keys[i][2]

C9_Witness ==
    /\ phase = "failed"
    /\ Getenv("ASTRAI_API_KEY", "") = "sk-astrai"
    /\ Getenv("DAILY_BUDGET", "10") = "10"
    /\ "OPENAI_API_KEY" \in DOMAIN env
    /\ NoProviderKeyInEnv

\* C10: with two concurrent logical calls on one plugin and a budget > 0, it
\* never happens that both calls pass the budget check when the cost recorded
\* for the first call alone brings the cumulative cost to the budget.
C10_NoDoublePass ==
    ~(first_hit /\ \A t \in Threads : Passed(t))

\* the sum of the values of a dict
RECURSIVE SumOver(_, _)
SumOver(d, keys) ==
    IF keys = {} THEN 0
    ELSE LET k == CHOOSE x \in keys : TRUE
         IN  d[k] + SumOver(d, keys \ {k})

DictSum(d) == SumOver(d, DOMAIN d)

\* C11: when two threads call record concurrently and every read-modify-write
\* is a read step and a write step, no update is lost: once both calls have
\* finished, the request count equals the number of calls and every total
\* equals the sum of the per-call values.
C11_NoLostUpdate ==
    (\A t \in Threads : pc[t] = "done") =>
        /\ tracker.requests = n_record
        /\ tracker.total_cost = sums.cost
        /\ tracker.total_savings = sums.savings
        /\ tracker.baseline_cost = sums.baseline
        /\ DictSum(tracker.by_task_type) = sums.savings
        /\ DictSum(tracker.by_provider) = n_record

\* C12: every budget error raised by intercept_request carries the configured
\* daily budget and, as requests routed, the number of record calls made so
\* far.
C12_BudgetErrorCarriesBudgetAndCount ==
    raised.kind = "RuntimeError" =>
        /\ op = "intercept_request"
        /\ raised.budget = FloatOrZero(Getenv("DAILY_BUDGET", "10")).v
        /\ raised.requests = n_record

\* budget 5, three recorded costs that pass it, the next intercept_request
\* raises and reports 3 requests
C12_Witness ==
    /\ op = "intercept_request"
    /\ raised.kind = "RuntimeError"
    /\ raised.budget = 5 * Dollar
    /\ raised.requests = 3
    /\ tracker.total_cost > 5 * Dollar

\* C13: after a successful intercept_request, X-Astrai-Available-Providers is
\* the comma-joined list of exactly the provider names of the configured key
\* map (a single provider gives its bare name), and X-Astrai-Provider-Keys
\* is the JSON text of that map.
C13_ProviderHeaders ==
    (op = "intercept_request" /\ raised.kind = "none") =>
        LET h == request_kwargs.headers
            pk == provider_keys
            Entry(i) == "\"" \o pk[i][1] \o "\": \"" \o pk[i][2] \o "\""
        IN  /\ Len(pk) \in {1, 2}
            /\ Len(pk) = 1 =>
                  /\ h["X-Astrai-Available-Providers"] = pk[1][1]
                  /\ h["X-Astrai-Provider-Keys"] = "{" \o Entry(1) \o "}"
            /\ Len(pk) = 2 =>
                  /\ h["X-Astrai-Available-Providers"] = pk[1][1] \o "," \o pk[2][1]
                  /\ h["X-Astrai-Provider-Keys"] =
                        "{" \o Entry(1) \o ", " \o Entry(2) \o "}"

\* with {"openai": "ok-1"} the header is exactly "openai"
C13_Witness ==
    /\ op = "intercept_request"
    /\ raised.kind = "none"
    /\ provider_keys = << <<"openai", "ok-1">> >>
    /\ request_kwargs.headers["X-Astrai-Available-Providers"] = "openai"
    /\ request_kwargs.headers["X-Astrai-Provider-Keys"] = "{\"openai\": \"ok-1\"}"

\* max(0, x)
Max0(x) == IF x > 0 THEN x ELSE 0

\* C14 as stated: status reports the remaining budget as
\* max(0, daily budget - cumulative cost) when the budget is positive, so it
\* is never negative and is 0 exactly where intercept_request would be
\* rejected, and reports the unlimited sentinel when the budget is 0.
C14_RemainingIsMaxZero ==
    op = "status" =>
        LET rem == status_out.budget_remaining_usd
        IN  /\ daily_budget > 0 =>
                /\ ~rem.none
                /\ rem.v = Max0(daily_budget - tracker.total_cost)
                /\ rem.v >= 0
                /\ rem.v = 0 <=> tracker.total_cost >= daily_budget
            /\ daily_budget = 0 => rem.none

\* C14 as amended: with a positive budget status reports
\* max(0, daily budget - cumulative cost) rounded to four decimal places: a
\* multiple of 0.0001 at most 0.00005 away from it, never negative, 0 wherever
\* intercept_request would be rejected and positive only where it would pass;
\* with budget 0 it reports the unlimited sentinel.
C14_RemainingIsRoundedMaxZero ==
    op = "status" =>
        LET rem == status_out.budget_remaining_usd
            exact == Max0(daily_budget - tracker.total_cost)
        IN  /\ daily_budget > 0 =>
                /\ ~rem.none
                /\ rem.v % 10 = 0
                /\ rem.v - exact \in -5..5
                /\ rem.v >= 0
                /\ tracker.total_cost >= daily_budget => rem.v = 0
                /\ rem.v > 0 => tracker.total_cost < daily_budget
            /\ daily_budget = 0 => rem.none

\* 0.00004 of the budget is left, intercept_request would pass, and status
\* reports 0 remaining
C14_Witness ==
    /\ op = "status"
    /\ daily_budget > 0
    /\ tracker.total_cost < daily_budget
    /\ tracker.total_cost > 0
    /\ status_out.budget_remaining_usd.v = 0

\* C15: a record call whose metadata lacks a field uses that field's default:
\* an absent numeric field adds 0 to its total, an absent task type is
\* bucketed under "unknown", and record({}) on a fresh tracker gives request
\* count 1, all monetary totals 0 and the task-type map {"unknown": 0}.
C15_AbsentFieldsUseDefaults ==
    [][op' = "intercept_response" =>
        LET h == headers_in'
        IN  /\ "X-Astrai-Cost" \notin DOMAIN h =>
                   tracker'.total_cost = tracker.total_cost
            /\ "X-Astrai-Savings" \notin DOMAIN h =>
                   tracker'.total_savings = tracker.total_savings
            /\ "X-Astrai-Baseline-Cost" \notin DOMAIN h =>
                   tracker'.baseline_cost = tracker.baseline_cost
            /\ "X-Astrai-Task-Type" \notin DOMAIN h =>
                   "unknown" \in DOMAIN tracker'.by_task_type
            /\ (tracker = NewTracker /\ h = EmptyDict) =>
                   /\ tracker'.requests = 1
                   /\ tracker'.total_cost = 0
                   /\ tracker'.total_savings = 0
                   /\ tracker'.baseline_cost = 0
                   /\ tracker'.by_task_type = Put(EmptyDict, "unknown", 0)]_vars

\* whether the summary line s has the clause named c
HasClause(s, c) == \E i \in 1..Len(s) : s[i].clause = c

\* C16: summary() includes the hourly-rate clause only when the elapsed
\* session time exceeds a tenth of an hour, and the percentage-reduction
\* clause if and only if the cumulative baseline cost is positive (each
\* quotient is evaluated only under its guard, so no division by zero).
C16_SummaryClauses ==
    op = "status" =>
        /\ HasClause(status_out.summary, "saved")
        /\ HasClause(status_out.summary, "rate") =>
               10 * (clock - tracker.session_start) > SecondsPerHour
        /\ HasClause(status_out.summary, "reduction") <=>
               tracker.baseline_cost > 0

\* summary() one second past the threshold with a positive baseline: all
\* three clauses
C16_Witness ==
    /\ op = "status"
    /\ clock = 361
    /\ tracker.baseline_cost > 0
    /\ Len(status_out.summary) = 3
    /\ HasClause(status_out.summary, "rate")
    /\ HasClause(status_out.summary, "reduction")

\* C17: status() (and the summary() it calls) is a pure read: it leaves the
\* tracker and the configuration as they were and never raises.
C17_StatusIsPureRead ==
    [][op' = "status" =>
        /\ tracker' = tracker
        /\ cfgVars' = cfgVars
        /\ env' = env
        /\ raised'.kind = "none"]_vars

\* status() was called on a tracker that has recorded responses
C17_Witness ==
    /\ op = "status"
    /\ raised.kind = "none"
    /\ tracker.requests >= 2
    /\ tracker.total_cost > 0
    /\ DOMAIN tracker.by_provider # {}
    /\ status_out.requests_routed = tracker.requests

\* C18: a successful intercept_request changes only base_url and the six
\* routing header keys: every other descriptor field and every other header
\* the caller supplied is kept, nothing else is added, and the tracker is
\* unchanged.
C18_RewriteFrame ==
    [][(op' = "intercept_request" /\ raised'.kind = "none") =>
        /\ DOMAIN request_kwargs'.fields =
               DOMAIN kwargs_in'.fields \cup {"base_url"}
        /\ \A k \in DOMAIN kwargs_in'.fields \ {"base_url"} :
               request_kwargs'.fields[k] = kwargs_in'.fields[k]
        /\ DOMAIN request_kwargs'.headers =
               DOMAIN kwargs_in'.headers \cup ROUTING_HEADERS
        /\ \A k \in DOMAIN kwargs_in'.headers \ ROUTING_HEADERS :
               request_kwargs'.headers[k] = kwargs_in'.headers[k]
        /\ tracker' = tracker]_vars

\* a descriptor with a timeout, its own base_url and a header under another
\* name was rewritten after responses had been recorded
C18_Witness ==
    /\ op = "intercept_request"
    /\ raised.kind = "none"
    /\ tracker.requests >= 1
    /\ "timeout" \in DOMAIN kwargs_in.fields
    /\ "X-Trace" \in DOMAIN kwargs_in.headers
    /\ request_kwargs.headers["X-Trace"] = "t1"
    /\ request_kwargs.fields["timeout"] = "30"
    /\ request_kwargs.fields["base_url"] # kwargs_in.fields["base_url"]

----
(* Sequential use: one caller makes its calls one at a time, and calls       *)
(* intercept_response at most once per call, only for a call whose           *)
(* intercept_request returned; every cost the service reports is >= 0.       *)

\* the one caller
Caller == 1

\* the response header mappings whose cost is not negative
SeqResponseHeaders ==
    {h \in ResponseHeaders : PerCall(h, "X-Astrai-Cost") >= 0}

\* the caller starts a call (a call that got no response is abandoned)
SeqRequest ==
    /\ phase = "active"
    /\ \E payload \in Payloads, kw \in KwargsInputs :
          LET r == InterceptRequestResult(payload, kw)
          IN  /\ payload_in' = payload
              /\ kwargs_in' = kw
              /\ raised' = r.raised
              /\ returned' = r.returned
              /\ request_kwargs' = r.kwargs
              /\ pc' = [pc EXCEPT ![Caller] =
                          IF r.raised.kind = "none" THEN "passed" ELSE "idle"]
    /\ op' = "intercept_request"
    /\ status_out' = NoStatus
    /\ headers_in' = EmptyDict
    /\ clock' = 0
    /\ UNCHANGED <<env, phase, cfgVars, tracker, n_record, sums, exhausted,
                   resp, first_hit, tmp>>

\* the call that passed returns, and the caller hands its headers to
\* intercept_response
SeqResponse ==
    /\ phase = "active"
    /\ pc[Caller] = "passed"
    /\ tracker.requests < MaxRecords
    /\ \E headers \in SeqResponseHeaders :
          LET r == Record(tracker, headers)
          IN  /\ tracker' = r.tracker
              /\ raised' = IF r.raised THEN ValueError ELSE NoError
              /\ sums' = SumsAfter(headers)
              /\ exhausted' = ExhaustedAfter(r.tracker)
              /\ headers_in' = headers
    /\ n_record' = n_record + 1
    /\ pc' = [pc EXCEPT ![Caller] = "idle"]
    /\ op' = "intercept_response"
    /\ payload_in' = NoPayload
    /\ returned' = NoPayload
    /\ kwargs_in' = NoKwargs
    /\ request_kwargs' = NoKwargs
    /\ status_out' = NoStatus
    /\ clock' = 0
    /\ UNCHANGED <<env, phase, cfgVars, resp, first_hit, tmp>>

NextSeq == Construct \/ SeqRequest \/ SeqResponse \/ Status

SpecSeq == Init /\ [][NextSeq]_vars

\* C19: in sequential use with non-negative costs and a positive budget, the
\* cumulative cost before each recorded response was strictly below the
\* budget, so the cumulative cost exceeds the budget by less than the cost
\* that response added.
C19_OvershootBelowOneCall ==
    [][(op' = "intercept_response" /\ daily_budget > 0) =>
        /\ tracker.total_cost < daily_budget
        /\ tracker'.total_cost - daily_budget <
               tracker'.total_cost - tracker.total_cost]_vars

\* a recorded response took the cumulative cost past the budget
C19_Witness ==
    /\ op = "intercept_response"
    /\ daily_budget > 0
    /\ tracker.total_cost > daily_budget
    /\ tracker.requests >= 2
    /\ pc[Caller] = "idle"

\* C20: the per-provider routing counts add up to the request count, also
\* after a record call that was handed malformed metadata.
C20_ProviderCountsSumToRequests ==
    DictSum(tracker.by_provider) = tracker.requests

====
